---- MODULE Spec2Model ----
(***************************************************************************)
(* Model of apps/streamlit_ui/multi_agent_communication_ui.py: the         *)
(* orchestrator main() (planning, seeding of the environment record, the   *)
(* per-subtask retrieval, the bounded role-playing dialogue loop, insight  *)
(* extraction and storage) and get_insights_from_environment().            *)
(*                                                                         *)
(* The external collaborators (MultiAgent, InsightAgent, RolePlaying) are  *)
(* inputs: what they return is drawn from small sets.                      *)
(***************************************************************************)
EXTENDS Naturals, Integers, Sequences, FiniteSets, TLC

(***************************************************************************)
(* Program constants and bounds of the model.                              *)
(***************************************************************************)
\* chat_turn_limit, n = 50, 0
chat_turn_limit == 50

\* most step calls of one dialogue that raise (flaky step function)
MaxFails == 1
\* most insights one insight_agent.run() call returns
MaxInsights == 2
\* most non-final turns of a dialogue in the runs with several subtasks
ShortTalk == 1
\* most display calls in the runs that exercise send_message_to_ui alone
MaxMessages == 3

\* subtask keys of the decomposed task
Keys == {"A", "B", "C"}
\* the subtask key of the runs with a single subtask
SingleKey == {"A"}
\* role names the role generation may return
Roles == {"r1", "r2"}
\* the role of the runs in which a single role was generated
SingleRole == {"r1"}
\* compatibility scores the scorer may give
Scores == {1, 2}
\* entity tags
TagA == "a"
TagB == "b"
\* the entity_recognition sequences the insight agent may return: the same
\* tag set {a, b} in two orders and once with a duplicate
TagSeqs == {<<TagA, TagB>>, <<TagB, TagA>>, <<TagA, TagA, TagB>>}
\* free-form content of an insight
Contents == {"x", "y"}

(***************************************************************************)
(* Values.                                                                 *)
(***************************************************************************)
\* Python None for insight["entity_recognition"]
NoneER == [none |-> TRUE, tags |-> <<>>]
SomeER(seq) == [none |-> FALSE, tags |-> seq]
ERs == {NoneER} \cup {SomeER(s) : s \in TagSeqs}
\* the insights insight_agent.run() may return
Insights == [entity_recognition : ERs, content : Contents]
\* the loop variable `insight` before the first iteration
NoInsight == [entity_recognition |-> NoneER, content |-> "unbound"]

\* a chat message: who wrote it, on which step call, and whether its content
\* contains the substring "CAMEL_TASK_DONE"
Msg(who, turn, sentinel) == [who |-> who, turn |-> turn, sentinel |-> sentinel]
\* role_play_session.init_chat()
InitMsg == Msg("init", 0, FALSE)
\* a response of role_play_session.step(): .terminated and .msg
Response(terminated, msg) == [terminated |-> terminated, msg |-> msg]
\* no step call made yet
NoMsg == Msg("unbound", 0, FALSE)
\* assistant_response / user_response before the first successful step call
NoResponse == Response(FALSE, Msg("unbound", 0, FALSE))

\* the profiles of the conversational step function: how many of its calls in
\* one dialogue raise, and how many plain (non-final) turns it produces
Profile(fails, plain) == [fails |-> fails, plain |-> plain]

(***************************************************************************)
(* The program's state.                                                    *)
(***************************************************************************)
VARIABLES
    oriented_graph,              \* subtask key -> its dependency set
    context_text,                \* "None" or the supplied context text
    step_profile,                \* behaviour of role_play_session.step
    role_descriptions_dict,      \* the role names generated for the task
    pc,                          \* position of main()
    parallel_subtask_pipelines,  \* the execution plan: sequence of groups
    pos,                         \* position of the for loop in the flattened plan
    finished,                    \* subtasks whose dialogue loop has been left
    environment_record,          \* the cache of the system: tags tuple -> insight
    insight,                     \* loop variable of the two insertion loops
    earlier_insight,             \* its value in the iteration before
    k,                           \* iterations made by the current insertion loop
    stored_keys,                 \* keys the subtasks' insertion loops assigned
    labels_sets,                 \* tag sets handed to the retrieval index
    labels_retrieved_sets,       \* tag sets the retrieval index returned
    retrieved_insights,          \* result of get_insights_from_environment
    role_compatibility_scores_dict, \* scorer's answer, in iteration order
    ai_assistant_role,           \* role selected for the assistant position
    ai_user_role,                \* role selected for the user position
    n,                           \* turn counter of the dialogue loop
    calls,                       \* step-function invocations of this dialogue
    fails,                       \* step-function invocations that raised
    input_msg,                   \* message passed to the next step call
    step_input,                  \* message the latest step call was given
    assistant_msg_record,        \* assistant-side transcript
    output_msg,                  \* human-readable transcript
    assistant_response,          \* last assistant response
    user_response,               \* last user response
    state,                       \* state of the dialogue loop controller
    chat_messages,               \* messages shown for the current subtask
    output_file,                 \* chunks appended to the log for the current subtask
    ui_call,                     \* the latest send_message_to_ui call
    context_insights             \* insights of context_text iterated so far

vars == <<oriented_graph, context_text, step_profile, role_descriptions_dict,
          role_compatibility_scores_dict, ai_assistant_role, ai_user_role, pc,
          stored_keys, labels_sets, labels_retrieved_sets,
          parallel_subtask_pipelines, pos, finished, environment_record,
          insight, earlier_insight, k, retrieved_insights, n, calls, fails,
          input_msg, step_input, context_insights,
          assistant_msg_record, output_msg, assistant_response,
          user_response, state, chat_messages, output_file, ui_call>>

inputVars == <<oriented_graph, context_text, step_profile,
               role_descriptions_dict>>
retrievalVars == <<labels_sets, labels_retrieved_sets, retrieved_insights>>
uiVars == <<chat_messages, output_file, ui_call>>
roleVars == <<role_compatibility_scores_dict, ai_assistant_role, ai_user_role>>
planVars == <<parallel_subtask_pipelines, pos, finished>>
insertVars == <<insight, earlier_insight, k>>
dialogueVars == <<n, calls, fails, input_msg, step_input, assistant_msg_record,
                  output_msg, assistant_response, user_response, state>>

(***************************************************************************)
(* Dependency scheduler: multi_agent.get_task_execution_order().           *)
(* Layered topological sort: each group holds the subtasks all of whose    *)
(* dependencies were placed in earlier groups.                             *)
(***************************************************************************)
CyclicDependencyError == [ok |-> FALSE, plan |-> <<>>]
PlanOf(groups) == [ok |-> TRUE, plan |-> groups]

RECURSIVE LayersAnyDependency(_, _, _)
LayersAnyDependency(graph, placed, remaining) ==
    LET ready == {s \in remaining : graph[s] = {} \/ graph[s] \cap placed # {}}
    IN  IF remaining = {} THEN PlanOf(<<>>)
        ELSE IF ready = {} THEN CyclicDependencyError
        ELSE LET rest == LayersAnyDependency(graph, placed \cup ready,
                                             remaining \ ready)
             IN  IF rest.ok THEN PlanOf(<<ready>> \o rest.plan)
                 ELSE CyclicDependencyError

RECURSIVE Layers(_, _, _)
Layers(graph, placed, remaining) ==
    LET ready == {s \in remaining : graph[s] \subseteq placed}
    IN  IF remaining = {} THEN PlanOf(<<>>)
        ELSE IF ready = {} THEN CyclicDependencyError
        ELSE LET rest == Layers(graph, placed \cup ready, remaining \ ready)
             IN  IF rest.ok THEN PlanOf(<<ready>> \o rest.plan)
                 ELSE CyclicDependencyError

get_task_execution_order(graph) == Layers(graph, {}, DOMAIN graph)

\* the orders in which a set may be listed
RECURSIVE ListingsOf(_)
ListingsOf(S) ==
    IF S = {} THEN {<<>>}
    ELSE UNION {{<<x>> \o rest : rest \in ListingsOf(S \ {x})} : x \in S}

\* the plans (one list per group) a plan of groups may be returned as
RECURSIVE PipelinesOf(_)
PipelinesOf(plan) ==
    IF plan = <<>> THEN {<<>>}
    ELSE {<<g>> \o rest : g \in ListingsOf(Head(plan)),
                          rest \in PipelinesOf(Tail(plan))}

(***************************************************************************)
(* main(): the iteration order of the subtasks,                            *)
(*   subtask for pipeline in parallel_subtask_pipelines                    *)
(*           for subtask in pipeline                                       *)
(***************************************************************************)
RECURSIVE FlattenLastGroupFirst(_)
FlattenLastGroupFirst(pipelines) ==
    IF pipelines = <<>> THEN <<>>
    ELSE FlattenLastGroupFirst(Tail(pipelines)) \o Head(pipelines)

RECURSIVE Flatten(_)
Flatten(pipelines) ==
    IF pipelines = <<>> THEN <<>>
    ELSE Head(pipelines) \o Flatten(Tail(pipelines))

\* the subtask the for loop is at, and the subtasks it has been through
subtask_id == Flatten(parallel_subtask_pipelines)[pos]
EarlierSubtasks ==
    {Flatten(parallel_subtask_pipelines)[i] : i \in 1..(pos - 1)}

\* where main() is after the call of get_task_execution_order: the exception
\* is not caught, so it ends the run
AfterPlanningIgnoreError(result) == "seed"

AfterPlanning(result) == IF result.ok THEN "seed" ELSE "aborted"

(***************************************************************************)
(* Environment record.                                                     *)
(***************************************************************************)
EmptyRecord == [key \in {} |-> NoInsight]

\* tuple(insight["entity_recognition"]): the same elements in the same order
Tuple(list) == list
\* list(labels_set)
ListOfSet(tuple) ==
    LET tags == {tuple[i] : i \in 1..Len(tuple)}
    IN  CHOOSE q \in ListingsOf(tags) : TRUE

List(tuple) == tuple

\* environment_record[key] = value
DictSetKeepFirst(dict, key, value) ==
    [x \in DOMAIN dict \cup {key} |-> IF x \in DOMAIN dict THEN dict[x] ELSE value]

DictSetOnly(dict, key, value) == [x \in {key} |-> value]

DictSet(dict, key, value) ==
    [x \in DOMAIN dict \cup {key} |-> IF x = key THEN value ELSE dict[x]]

\* the body of the two insertion loops:
\*   if insight["entity_recognition"] is None: continue
\*   environment_record[tuple(insight["entity_recognition"])] = insight
InsertNoNullCheck(env, ins) ==
    DictSet(env, Tuple(ins.entity_recognition.tags), ins)

InsertKeepFirst(env, ins) ==
    IF ins.entity_recognition.none THEN env
    ELSE DictSetKeepFirst(env, Tuple(ins.entity_recognition.tags), ins)

InsertReplaceAll(env, ins) ==
    IF ins.entity_recognition.none THEN env
    ELSE DictSetOnly(env, Tuple(ins.entity_recognition.tags), ins)

Insert(env, ins) ==
    IF ins.entity_recognition.none THEN env
    ELSE DictSet(env, Tuple(ins.entity_recognition.tags), ins)

(***************************************************************************)
(* get_insights_from_environment()                                         *)
(***************************************************************************)
\* some listing of a set, as dict.keys() lists the keys
SeqOfSet(S) == CHOOSE q \in ListingsOf(S) : TRUE

\* labels_sets = [list(labels_set) for labels_set in environment_record.keys()]
labels_sets_of(env) ==
    LET keys == SeqOfSet(DOMAIN env)
    IN  [i \in 1..Len(keys) |-> List(keys[i])]

\* what multi_agent.get_retrieval_index_from_environment may return as
\* labels_retrieved_sets: a selection of the tag sets it was given
RetrievalsOf(given_sets) ==
    {SeqOfSet(R) : R \in SUBSET {given_sets[i] : i \in 1..Len(given_sets)}}

\* environment_record[key], which raises KeyError when the key is missing
KeyError == [entity_recognition |-> NoneER, content |-> "KeyError"]
Lookup(env, key) == IF key \in DOMAIN env THEN env[key] ELSE KeyError

\* [environment_record[tuple(label_set)] for label_set in labels_retrieved_sets]
RetrievedInsights(env, retrieved_sets) ==
    [i \in 1..Len(retrieved_sets) |-> Lookup(env, Tuple(retrieved_sets[i]))]

\* whether one of these lookups raises KeyError
LookupRaises(env, retrieved_sets) ==
    \E i \in 1..Len(retrieved_sets) : Tuple(retrieved_sets[i]) \notin DOMAIN env

\* the environment record once get_insights_from_environment has returned
EnvAfterRetrievalPop(env, retrieved_sets) ==
    LET gone == {Tuple(retrieved_sets[i]) : i \in 1..Len(retrieved_sets)}
    IN  [x \in DOMAIN env \ gone |-> env[x]]

EnvAfterRetrieval(env, retrieved_sets) == env

(***************************************************************************)
(* Role selection of main():                                               *)
(*   max(role_compatibility_scores_dict, key=lambda role: ...[role][...])  *)
(***************************************************************************)
\* no role selected yet
NoRole == "None"

\* what multi_agent.evaluate_role_compatibility may return for the roles: one
\* entry per role, in some iteration order, each with its two scores
ScoreDictsOf(roles) ==
    {[i \in 1..Len(order) |->
         [role |-> order[i], score_assistant |-> sa[order[i]],
          score_user |-> su[order[i]]]] :
       order \in ListingsOf(roles), sa \in [roles -> Scores], su \in [roles -> Scores]}

\* Python's max(iterable, key=...): goes through the items in iteration order
\* and keeps an item only if its key is greater than the best so far
RECURSIVE MaxIndexLast(_, _, _)
MaxIndexLast(keys, best, i) ==
    IF i > Len(keys) THEN best
    ELSE MaxIndexLast(keys, IF keys[i] >= keys[best] THEN i ELSE best, i + 1)

RECURSIVE MaxIndex(_, _, _)
MaxIndex(keys, best, i) ==
    IF i > Len(keys) THEN best
    ELSE MaxIndex(keys, IF keys[i] > keys[best] THEN i ELSE best, i + 1)

\* ai_assistant_role = max(scores, key=lambda role: scores[role]["score_assistant"])
SelectAssistant(scores) ==
    scores[MaxIndex([i \in 1..Len(scores) |-> scores[i].score_assistant], 1, 2)].role

\* ai_user_role = max(scores, key=lambda role: scores[role]["score_user"])
SelectUser(scores) ==
    scores[MaxIndex([i \in 1..Len(scores) |-> scores[i].score_user], 1, 2)].role

(***************************************************************************)
(* send_message_to_ui(role, role_name, message).  The display and the log  *)
(* file are kept per subtask: what earlier subtasks showed and appended is *)
(* never read again.                                                       *)
(***************************************************************************)
\* the role labels a display call may be made with
UIRoles == {"user", "assistant", "system", ""}
\* the message texts of the display calls made on their own: with and without
\* the substring "Next request."
UIMessages == [text : {"m"}, next_request : BOOLEAN]

\* message.replace("Next request.", ""); the chat messages of the dialogue
\* loop are modelled without this substring
WithoutNextRequest(message) ==
    IF "next_request" \in DOMAIN message
    THEN [message EXCEPT !.next_request = FALSE]
    ELSE message

\* no display call made yet
NoCall == [role |-> "None", role_name |-> NoRole, raised |-> FALSE]

\* what the display call shows and appends when the role is accepted
Shown(ui, role, role_name, message) ==
    [chat |-> Append(ui.chat, [role |-> role, role_name |-> role_name,
                               text |-> WithoutNextRequest(message)]),
     file |-> ui.file \o << [chunk |-> "header", role |-> role, role_name |-> role_name],
                            [chunk |-> "body", text |-> WithoutNextRequest(message)],
                            [chunk |-> "blank"] >>,
     call |-> [role |-> role, role_name |-> role_name, raised |-> FALSE]]

\* the display call; raised: it ended in ValueError
send_message_to_ui_check_last(ui, role, role_name, message) ==
    IF role \notin {"user", "assistant"}
    THEN [Shown(ui, role, role_name, message) EXCEPT !.call.raised = TRUE]
    ELSE Shown(ui, role, role_name, message)

send_message_to_ui(ui, role, role_name, message) ==
    IF role \notin {"user", "assistant"}
    THEN [ui EXCEPT !.call = [role |-> role, role_name |-> role_name, raised |-> TRUE]]
    ELSE Shown(ui, role, role_name, message)

(***************************************************************************)
(* The dialogue loop of main():                                            *)
(*   while n < chat_turn_limit: n += 1; try: step(input_msg) ...           *)
(***************************************************************************)
\* while n < chat_turn_limit
LoopContinuesOneMore(cnt) == cnt <= chat_turn_limit

LoopContinues(cnt) == cnt < chat_turn_limit

\* n += 1, the first statement of the loop body, before the try
NextTurnOnSuccess(cnt, raised) == IF raised THEN cnt ELSE cnt + 1

NextTurn(cnt, raised) == cnt + 1

\* "CAMEL_TASK_DONE" in user_response.msg.content
\*     or "CAMEL_TASK_DONE" in assistant_response.msg.content
TaskDone(a, u) == u.msg.sentinel \/ a.msg.sentinel

\* how a successful step call leaves the loop body: the two termination
\* breaks, then the sentinel break, else the next iteration
ExitOfUserFirst(a, u) ==
    IF u.terminated THEN "TERMINATED_USER"
    ELSE IF a.terminated THEN "TERMINATED_ASSISTANT"
    ELSE IF TaskDone(a, u) THEN "COMPLETED"
    ELSE "CONTINUE"

ExitOf(a, u) ==
    IF a.terminated THEN "TERMINATED_ASSISTANT"
    ELSE IF u.terminated THEN "TERMINATED_USER"
    ELSE IF TaskDone(a, u) THEN "COMPLETED"
    ELSE "CONTINUE"

\* whether the loop body gets past the two termination breaks
Recorded(a, u) == ~a.terminated /\ ~u.terminated

\* assistant_msg_record += f"--- [{n}] ---\n" + assistant_response.msg.content
RecordAfterAlways(record, turn, a, u) ==
    Append(record, [turn |-> turn, content |-> a.msg])

RecordAfterDoneFirst(record, turn, a, u) ==
    IF Recorded(a, u) /\ ~TaskDone(a, u)
    THEN Append(record, [turn |-> turn, content |-> a.msg])
    ELSE record

RecordAfter(record, turn, a, u) ==
    IF Recorded(a, u)
    THEN Append(record, [turn |-> turn, content |-> a.msg])
    ELSE record

\* output_msg += transform_dialogue_into_text(user_conversation=...,
\*     assistant_conversation=...)["text"] + "\n"
OutputAfter(output, a, u) ==
    IF Recorded(a, u)
    THEN Append(output, [user |-> u.msg, assistant |-> a.msg])
    ELSE output

\* input_msg = assistant_response.msg
InputAfterUser(input, a, u) == IF Recorded(a, u) THEN u.msg ELSE input

InputAfter(input, a, u) == IF Recorded(a, u) THEN a.msg ELSE input

\* the two display calls of a recorded turn: the user's message, then the
\* assistant's
UIAfter(ui, user_role, assistant_role, a, u) ==
    IF Recorded(a, u)
    THEN send_message_to_ui(
             send_message_to_ui(ui, "user", user_role, u.msg),
             "assistant", assistant_role, a.msg)
    ELSE ui

\* except Exception as e: st.warning(...); continue -- the transcripts and
\* the input message stay as they are
RecordAfterRaiseNoted(record, turn) ==
    Append(record, [turn |-> turn, content |-> Msg("warning", turn, FALSE)])

RecordAfterRaise(record, turn) == record

InputAfterRaise(input) == input

\* the state of the dialogue when the loop is back at its head
StateAtLoopHead(cnt) ==
    IF LoopContinues(cnt) THEN "RUNNING" ELSE "TURN_LIMIT_REACHED"

Terminal == {"COMPLETED", "TERMINATED_ASSISTANT", "TERMINATED_USER",
             "TURN_LIMIT_REACHED"}

\* the display and the log as one value
CurrentUI == [chat |-> chat_messages, file |-> output_file, call |-> ui_call]

(***************************************************************************)
(* Initial state: the inputs of main() and the behaviour of the            *)
(* collaborators.  Runs with several subtasks have short dialogues; runs   *)
(* with one subtask have dialogues of any length.                          *)
(***************************************************************************)
Graphs(tasks) == [tasks -> SUBSET tasks]

Init ==
    /\ \/ /\ oriented_graph \in Graphs(Keys)
          /\ context_text \in {"None", "ctx"}
          /\ step_profile = Profile(0, ShortTalk)
          /\ role_descriptions_dict = SingleRole
       \/ /\ oriented_graph \in Graphs(SingleKey)
          /\ context_text = "None"
          /\ step_profile \in {Profile(f, chat_turn_limit) : f \in 0..MaxFails}
                               \cup {Profile(chat_turn_limit, 0)}
          /\ role_descriptions_dict = SingleRole
       \/ /\ oriented_graph \in Graphs(SingleKey)
          /\ context_text = "ctx"
          /\ step_profile \in {Profile(f, ShortTalk) : f \in 1..MaxFails}
          /\ role_descriptions_dict = Roles
    /\ pc = "plan"
    /\ parallel_subtask_pipelines = <<>>
    /\ pos = 0
    /\ finished = {}
    /\ environment_record = EmptyRecord
    /\ insight = NoInsight
    /\ earlier_insight = NoInsight
    /\ k = 0
    /\ stored_keys = {}
    /\ labels_sets = <<>>
    /\ labels_retrieved_sets = <<>>
    /\ retrieved_insights = <<>>
    /\ role_compatibility_scores_dict = <<>>
    /\ ai_assistant_role = NoRole
    /\ ai_user_role = NoRole
    /\ n = 0
    /\ calls = 0
    /\ fails = 0
    /\ input_msg = InitMsg
    /\ step_input = NoMsg
    /\ assistant_msg_record = <<>>
    /\ output_msg = <<>>
    /\ assistant_response = NoResponse
    /\ user_response = NoResponse
    /\ state = "NONE"
    /\ chat_messages = <<>>
    /\ output_file = <<>>
    /\ ui_call = NoCall
    /\ context_insights = <<>>

(***************************************************************************)
(* Actions.                                                                *)
(***************************************************************************)
\* parallel_subtask_pipelines = multi_agent.get_task_execution_order(...)
PlanSubtasks ==
    /\ pc = "plan"
    /\ LET result == get_task_execution_order(oriented_graph)
       IN  /\ pc' = AfterPlanning(result)
           /\ parallel_subtask_pipelines' \in PipelinesOf(result.plan)
    /\ UNCHANGED <<inputVars, context_insights, uiVars, stored_keys, roleVars, pos, finished, environment_record, insertVars,
                   retrievalVars, dialogueVars>>

\* one iteration of: for insight in insights.values() (initial context)
SeedInsight ==
    /\ pc = "seed"
    /\ context_text # "None"
    /\ k < MaxInsights
    /\ \E ins \in Insights :
          /\ insight' = ins
          /\ earlier_insight' = insight
          /\ environment_record' = Insert(environment_record, ins)
          /\ context_insights' = Append(context_insights, ins)
    /\ k' = k + 1
    /\ UNCHANGED <<inputVars, uiVars, stored_keys, roleVars, pc, planVars, retrievalVars, dialogueVars>>

\* the seeding is over (or context_text is None): on to the for loop
SeedDone ==
    /\ pc = "seed"
    /\ pc' = "loop"
    /\ k' = 0
    /\ insight' = NoInsight
    /\ earlier_insight' = NoInsight
    /\ UNCHANGED <<inputVars, context_insights, uiVars, stored_keys, roleVars, planVars, environment_record,
                   retrievalVars, dialogueVars>>

\* the for loop takes the next subtask and calls get_insights_from_environment
Retrieve ==
    /\ pc = "loop"
    /\ pos < Len(Flatten(parallel_subtask_pipelines))
    /\ pos' = pos + 1
    /\ context_insights' = <<>>
    /\ labels_sets' = labels_sets_of(environment_record)
    /\ \E retrieved_sets \in RetrievalsOf(labels_sets') :
          /\ labels_retrieved_sets' = retrieved_sets
          /\ IF LookupRaises(environment_record, retrieved_sets)
             THEN /\ pc' = "key_error"
                  /\ retrieved_insights' = <<>>
                  /\ state' = state
             ELSE /\ pc' = "session"
                  /\ retrieved_insights' =
                         RetrievedInsights(environment_record, retrieved_sets)
                  /\ state' = "INIT"
          /\ environment_record' =
                 EnvAfterRetrieval(environment_record, retrieved_sets)
    /\ UNCHANGED <<inputVars, uiVars, stored_keys, roleVars, parallel_subtask_pipelines,
                   finished, insertVars,
                   n, calls, fails, input_msg, step_input, assistant_msg_record,
                   output_msg, assistant_response, user_response>>

\* role_compatibility_scores_dict = multi_agent.evaluate_role_compatibility(...)
\* and the selection of the two roles
MatchRoles ==
    /\ pc = "session"
    /\ pc' = "matched"
    /\ \E scores \in ScoreDictsOf(role_descriptions_dict) :
          /\ role_compatibility_scores_dict' = scores
          /\ ai_assistant_role' = SelectAssistant(scores)
          /\ ai_user_role' = SelectUser(scores)
    /\ UNCHANGED <<inputVars, context_insights, uiVars, stored_keys, planVars, environment_record, insertVars,
                   retrievalVars, dialogueVars>>

\* the role-playing session is built from the retrieved insights and the
\* dialogue starts: chat_turn_limit, n = 50, 0; input_msg = init_chat()
StartDialogue ==
    /\ pc = "matched"
    /\ pc' = "dialogue"
    /\ labels_sets' = <<>>
    /\ labels_retrieved_sets' = <<>>
    /\ retrieved_insights' = <<>>
    /\ role_compatibility_scores_dict' = <<>>
    /\ UNCHANGED <<ai_assistant_role, ai_user_role>>
    /\ n' = 0
    /\ calls' = 0
    /\ fails' = 0
    /\ input_msg' = InitMsg
    /\ step_input' = NoMsg
    /\ assistant_msg_record' = <<>>
    /\ output_msg' = <<>>
    /\ state' = StateAtLoopHead(0)
    /\ UNCHANGED <<inputVars, context_insights, uiVars, stored_keys, planVars, environment_record, insertVars,
                   assistant_response, user_response>>

\* one iteration of the while loop in which role_play_session.step raises
StepRaises ==
    /\ pc = "dialogue"
    /\ state = "RUNNING"
    /\ fails < step_profile.fails
    /\ n' = NextTurn(n, TRUE)
    /\ calls' = calls + 1
    /\ fails' = fails + 1
    /\ step_input' = input_msg
    /\ input_msg' = InputAfterRaise(input_msg)
    /\ assistant_msg_record' = RecordAfterRaise(assistant_msg_record, n')
    /\ state' = StateAtLoopHead(n')
    /\ UNCHANGED <<inputVars, context_insights, uiVars, stored_keys, roleVars, pc, planVars,
                   environment_record, insertVars, retrievalVars, output_msg,
                   assistant_response, user_response>>

\* one iteration of the while loop in which role_play_session.step returns
StepReturns ==
    /\ pc = "dialogue"
    /\ state = "RUNNING"
    /\ \E aT \in BOOLEAN, uT \in BOOLEAN, aD \in BOOLEAN, uD \in BOOLEAN :
          LET turn == NextTurn(n, FALSE)
              a == Response(aT, Msg("assistant", calls + 1, aD))
              u == Response(uT, Msg("user", calls + 1, uD))
          IN  /\ ExitOf(a, u) = "CONTINUE"
                    => Len(assistant_msg_record) < step_profile.plain
              /\ n' = turn
              /\ calls' = calls + 1
              /\ step_input' = input_msg
              /\ assistant_response' = a
              /\ user_response' = u
              /\ input_msg' = InputAfter(input_msg, a, u)
              /\ assistant_msg_record' = RecordAfter(assistant_msg_record, turn, a, u)
              /\ output_msg' = OutputAfter(output_msg, a, u)
              /\ LET ui == UIAfter(CurrentUI, ai_user_role, ai_assistant_role, a, u)
                 IN  /\ chat_messages' = ui.chat
                     /\ output_file' = ui.file
                     /\ ui_call' = ui.call
              /\ state' = IF ExitOf(a, u) = "CONTINUE"
                          THEN StateAtLoopHead(turn)
                          ELSE ExitOf(a, u)
    /\ UNCHANGED <<inputVars, context_insights, stored_keys, roleVars, pc, planVars, environment_record, insertVars,
                   retrievalVars, fails>>

\* the loop is left: insights = insight_agent.run(context_text=assistant_msg_record)
ExtractInsights ==
    /\ pc = "dialogue"
    /\ state \in Terminal
    /\ pc' = "insert"
    /\ finished' = finished \cup {subtask_id}
    /\ n' = 0
    /\ calls' = 0
    /\ fails' = 0
    /\ input_msg' = InitMsg
    /\ step_input' = NoMsg
    /\ assistant_msg_record' = <<>>
    /\ output_msg' = <<>>
    /\ assistant_response' = NoResponse
    /\ user_response' = NoResponse
    /\ state' = "NONE"
    /\ chat_messages' = <<>>
    /\ output_file' = <<>>
    /\ ui_call' = NoCall
    /\ role_compatibility_scores_dict' = <<>>
    /\ ai_assistant_role' = NoRole
    /\ ai_user_role' = NoRole
    /\ UNCHANGED <<inputVars, context_insights, stored_keys, parallel_subtask_pipelines, pos,
                   environment_record, insertVars, retrievalVars>>

\* one iteration of: for insight in insights.values() (update of the record)
StoreInsight ==
    /\ pc = "insert"
    /\ k < MaxInsights
    /\ \E ins \in Insights :
          /\ insight' = ins
          /\ earlier_insight' = insight
          /\ environment_record' = Insert(environment_record, ins)
          /\ stored_keys' = IF ins.entity_recognition.none THEN stored_keys
                            ELSE stored_keys \cup {Tuple(ins.entity_recognition.tags)}
    /\ k' = k + 1
    /\ UNCHANGED <<inputVars, context_insights, uiVars, roleVars, pc, planVars, retrievalVars, dialogueVars>>

\* the subtask is over: send_summary_to_ui, back to the head of the for loop
EndSubtask ==
    /\ pc = "insert"
    /\ pc' = "loop"
    /\ k' = 0
    /\ insight' = NoInsight
    /\ earlier_insight' = NoInsight
    /\ UNCHANGED <<inputVars, context_insights, uiVars, stored_keys, roleVars, planVars, environment_record,
                   retrievalVars, dialogueVars>>

\* the for loop is exhausted: main() returns
Return ==
    /\ pc = "loop"
    /\ pos = Len(Flatten(parallel_subtask_pipelines))
    /\ pc' = "done"
    /\ UNCHANGED <<inputVars, context_insights, uiVars, stored_keys, roleVars, planVars, environment_record, insertVars,
                   retrievalVars, dialogueVars>>

Next ==
    \/ PlanSubtasks
    \/ SeedInsight
    \/ SeedDone
    \/ Retrieve
    \/ MatchRoles
    \/ StartDialogue
    \/ StepRaises
    \/ StepReturns
    \/ ExtractInsights
    \/ StoreInsight
    \/ EndSubtask
    \/ Return

Spec == Init /\ [][Next]_vars

(***************************************************************************)
(* send_message_to_ui on its own: display calls with any role label, one   *)
(* after the other, by a caller that goes on after a ValueError.           *)
(***************************************************************************)
InitUI ==
    /\ oriented_graph \in Graphs(SingleKey)
    /\ context_text = "None"
    /\ step_profile = Profile(0, ShortTalk)
    /\ role_descriptions_dict = Roles
    /\ pc = "ui"
    /\ parallel_subtask_pipelines = <<>>
    /\ pos = 0
    /\ finished = {}
    /\ environment_record = EmptyRecord
    /\ insight = NoInsight
    /\ earlier_insight = NoInsight
    /\ k = 0
    /\ stored_keys = {}
    /\ labels_sets = <<>>
    /\ labels_retrieved_sets = <<>>
    /\ retrieved_insights = <<>>
    /\ role_compatibility_scores_dict = <<>>
    /\ ai_assistant_role = NoRole
    /\ ai_user_role = NoRole
    /\ n = 0
    /\ calls = 0
    /\ fails = 0
    /\ input_msg = InitMsg
    /\ step_input = NoMsg
    /\ assistant_msg_record = <<>>
    /\ output_msg = <<>>
    /\ assistant_response = NoResponse
    /\ user_response = NoResponse
    /\ state = "NONE"
    /\ chat_messages = <<>>
    /\ output_file = <<>>
    /\ ui_call = NoCall
    /\ context_insights = <<>>

\* one call send_message_to_ui(role=..., role_name=..., message=...)
SendMessage ==
    /\ pc = "ui"
    /\ Len(chat_messages) < MaxMessages
    /\ \E role \in UIRoles, role_name \in role_descriptions_dict, message \in UIMessages :
          LET ui == send_message_to_ui(CurrentUI, role, role_name, message)
          IN  /\ chat_messages' = ui.chat
              /\ output_file' = ui.file
              /\ ui_call' = ui.call
    /\ UNCHANGED <<inputVars, context_insights, stored_keys, roleVars, pc, planVars,
                   environment_record, insertVars, retrievalVars, dialogueVars>>

NextUI == SendMessage

SpecUI == InitUI /\ [][NextUI]_vars

(***************************************************************************)
(* Properties.                                                             *)
(***************************************************************************)
InDialogue == pc = "dialogue"
Turns(record) == {record[i].turn : i \in 1..Len(record)}
\* the tags of a key, as a set
TagSet(tags) == {tags[i] : i \in 1..Len(tags)}
\* the two latest iterations of an insertion loop both stored an insight
TwoStored ==
    /\ k >= 2
    /\ ~earlier_insight.entity_recognition.none
    /\ ~insight.entity_recognition.none
\* no turn of the dialogue so far was terminated or carried the sentinel
PlainSoFar ==
    /\ Len(output_msg) = calls - fails
    /\ \A i \in 1..Len(output_msg) :
          ~output_msg[i].user.sentinel /\ ~output_msg[i].assistant.sentinel
\* some nonempty set of subtasks each of which depends on one of the set
HasCycle(graph) ==
    \E S \in SUBSET (DOMAIN graph) :
        S # {} /\ \A s \in S : graph[s] \cap S # {}

\* C1 (as claimed): failed step calls take no turn-limit slot, so the turn
\* limit is reached only once 50 turns have succeeded.
C1_FailedCallsKeepTurnSlots ==
    (InDialogue /\ state = "TURN_LIMIT_REACHED")
        => Len(assistant_msg_record) = chat_turn_limit

\* C1 (amended): every step call, failed or not, takes a turn-limit slot: n
\* counts the calls, never exceeds 50, and when the turn limit is reached
\* after f failed calls exactly 50 - f turns have succeeded.
C1_FailedCallsConsumeTurnSlots ==
    InDialogue =>
        /\ n = calls
        /\ calls <= chat_turn_limit
        /\ Len(assistant_msg_record) + fails <= calls
        /\ state = "TURN_LIMIT_REACHED" =>
              /\ calls = chat_turn_limit
              /\ Len(assistant_msg_record) = chat_turn_limit - fails

C1_Witness ==
    /\ InDialogue
    /\ state = "TURN_LIMIT_REACHED"
    /\ fails = 1
    /\ Len(assistant_msg_record) = chat_turn_limit - 1

C3_DependenciesFinishFirst ==
    pc \in {"session", "matched", "dialogue"} =>
        /\ oriented_graph[subtask_id] \subseteq finished
        /\ subtask_id \notin finished

C3_Witness ==
    /\ InDialogue
    /\ state = "RUNNING"
    /\ calls = 1
    /\ Cardinality(oriented_graph[subtask_id]) = 2

\* C4: with a cyclic dependency graph the run never gets past planning: it
\* has no plan, starts no dialogue, makes no step call and inserts nothing
\* into the environment record; and planning ends in the abort only then.
C4_CycleAborts ==
    /\ HasCycle(oriented_graph) =>
          /\ pc \in {"plan", "aborted"}
          /\ parallel_subtask_pipelines = <<>>
          /\ pos = 0
          /\ finished = {}
          /\ state = "NONE"
          /\ calls = 0
          /\ environment_record = EmptyRecord
    /\ pc = "aborted" => HasCycle(oriented_graph)

C4_Witness ==
    /\ pc = "aborted"
    /\ context_text = "ctx"
    /\ \A s \in DOMAIN oriented_graph :
          s \notin oriented_graph[s] /\ oriented_graph[s] # {}

\* C5: as long as no step call failed, no response was terminated and none
\* carried the sentinel, the dialogue runs until the step function was called
\* exactly 50 times, then ends in TURN_LIMIT_REACHED with the 50 transcript
\* entries 1..50.
C5_FiftyPlainTurns ==
    (InDialogue /\ fails = 0 /\ PlainSoFar) =>
        \/ calls < chat_turn_limit /\ state = "RUNNING"
        \/ /\ calls = chat_turn_limit
           /\ state = "TURN_LIMIT_REACHED"
           /\ Len(assistant_msg_record) = chat_turn_limit
           /\ \A i \in 1..chat_turn_limit : assistant_msg_record[i].turn = i

C5_Witness ==
    /\ InDialogue
    /\ fails = 0
    /\ PlainSoFar
    /\ calls = chat_turn_limit
    /\ state = "TURN_LIMIT_REACHED"

\* C6: with no failed call, a response pair that carries the sentinel and is
\* not terminated ends the dialogue in COMPLETED, and a dialogue in COMPLETED
\* has as many transcript entries as step calls were made, the last of them
\* the sentinel turn and no earlier one carrying the sentinel.
C6_SentinelTurnRecorded ==
    (InDialogue /\ fails = 0) =>
        /\ (/\ calls > 0
            /\ ~assistant_response.terminated
            /\ ~user_response.terminated
            /\ TaskDone(assistant_response, user_response))
               => state = "COMPLETED"
        /\ state = "COMPLETED" =>
              /\ n = calls
              /\ Len(assistant_msg_record) = calls
              /\ Len(output_msg) = calls
              /\ assistant_msg_record[calls].turn = calls
              /\ assistant_msg_record[calls].content = assistant_response.msg
              /\ assistant_response.msg.turn = calls
              /\ output_msg[calls].user.sentinel
                    \/ output_msg[calls].assistant.sentinel
              /\ \A i \in 1..(calls - 1) :
                    /\ ~output_msg[i].user.sentinel
                    /\ ~output_msg[i].assistant.sentinel

C6_Witness ==
    /\ InDialogue
    /\ state = "COMPLETED"
    /\ fails = 0
    /\ calls = 3
    /\ user_response.msg.sentinel
    /\ ~assistant_response.msg.sentinel
    /\ Len(assistant_msg_record) = 3

\* C7: a step call whose assistant (or user) response is terminated ends the
\* dialogue in TERMINATED_ASSISTANT (or TERMINATED_USER) and adds nothing to
\* the transcript, which holds the entries of the earlier successful turns
\* only (none when the termination is on turn 1).
C7_TerminationNotRecorded ==
    InDialogue =>
        /\ (calls > fails /\ state \in {"RUNNING", "COMPLETED", "TURN_LIMIT_REACHED"})
              => ~assistant_response.terminated /\ ~user_response.terminated
        /\ state = "TERMINATED_ASSISTANT" => assistant_response.terminated
        /\ state = "TERMINATED_USER" => user_response.terminated
        /\ state \in {"TERMINATED_ASSISTANT", "TERMINATED_USER"} =>
              /\ Len(assistant_msg_record) = calls - 1 - fails
              /\ Len(output_msg) = calls - 1 - fails
              /\ \A t \in Turns(assistant_msg_record) : t < n
              /\ n = 1 => assistant_msg_record = <<>> /\ output_msg = <<>>

C7_Witness ==
    /\ InDialogue
    /\ state = "TERMINATED_ASSISTANT"
    /\ calls = 3
    /\ fails = 0
    /\ Turns(assistant_msg_record) = {1, 2}

\* C8: an iteration of an insertion loop (seeding or storing a subtask's
\* insights) whose insight has entity_recognition None leaves the
\* environment record as it was.
C8_NullTagsNoChange ==
    [][(k' = k + 1 /\ insight'.entity_recognition.none)
          => environment_record' = environment_record]_vars

C8_Witness ==
    /\ pc = "insert"
    /\ k > 0
    /\ insight.entity_recognition.none
    /\ environment_record # EmptyRecord

\* C9: no step of the run removes a key from the environment record.
C9_KeysNeverShrink ==
    [][DOMAIN environment_record \subseteq DOMAIN environment_record']_vars

C9_Witness ==
    /\ pc = "insert"
    /\ TwoStored
    /\ earlier_insight.entity_recognition.tags # insight.entity_recognition.tags
    /\ Cardinality(DOMAIN environment_record) = 3

\* C10: the environment record is the same after
\* get_insights_from_environment returns as before the call.
C10_RetrievalKeepsRecord ==
    [][(pc = "loop" /\ pc' = "session")
          => environment_record' = environment_record]_vars

C10_Witness ==
    /\ pc = "session"
    /\ Len(retrieved_insights) = 2
    /\ Cardinality(DOMAIN environment_record) = 3

\* C11: once the roles are selected, the assistant role has the greatest
\* score_assistant and the user role the greatest score_user of the score
\* map, and no role earlier in the map's iteration order has the same score
\* as the selected one; nothing keeps the two from being the same role.
C11_FirstMaximalRole ==
    pc = "matched" =>
        LET scores == role_compatibility_scores_dict
            at(role) == CHOOSE i \in 1..Len(scores) : scores[i].role = role
            a == at(ai_assistant_role)
            u == at(ai_user_role)
        IN  /\ ai_assistant_role \in role_descriptions_dict
            /\ ai_user_role \in role_descriptions_dict
            /\ \A i \in 1..Len(scores) :
                  /\ scores[i].score_assistant <= scores[a].score_assistant
                  /\ scores[i].score_user <= scores[u].score_user
                  /\ i < a => scores[i].score_assistant < scores[a].score_assistant
                  /\ i < u => scores[i].score_user < scores[u].score_user

C11_Witness ==
    /\ pc = "matched"
    /\ Len(role_compatibility_scores_dict) = 2
    /\ role_compatibility_scores_dict[1].score_assistant
          = role_compatibility_scores_dict[2].score_assistant
    /\ role_compatibility_scores_dict[1].score_user
          = role_compatibility_scores_dict[2].score_user
    /\ ai_assistant_role = role_compatibility_scores_dict[1].role
    /\ ai_user_role = ai_assistant_role

\* the tag sets in a list of tag sets
ListedSets(sets) == {sets[i] : i \in 1..Len(sets)}

\* C12: a dialogue runs only for the subtask the for loop is at, after the
\* dialogues of all subtasks before it in the flattened plan have been left
\* and their insertion loops are over; and the retrieval for a subtask is
\* handed every key that the insertion loops of the earlier subtasks
\* assigned.
C12_OneSubtaskAtATime ==
    /\ state \in {"INIT", "RUNNING"} =>
          /\ pc \in {"session", "matched", "dialogue"}
          /\ finished = EarlierSubtasks
          /\ k = 0
    /\ pc = "insert" => state = "NONE" /\ finished = EarlierSubtasks \cup {subtask_id}
    /\ pc = "session" =>
          /\ \A key \in stored_keys : List(key) \in ListedSets(labels_sets)
          /\ ListedSets(labels_sets) = {List(key) : key \in DOMAIN environment_record}

C12_Witness ==
    /\ pc = "session"
    /\ pos = 3
    /\ context_text = "None"
    /\ Cardinality(stored_keys) = 3
    /\ Len(labels_sets) = 3

\* C20: the lookups of a retrieval never miss: no run ends in a KeyError,
\* and when get_insights_from_environment has returned, every tag set the
\* index returned is, converted back to a tuple, a key of the environment
\* record, and the result holds the record's insight for each returned tag
\* set in turn.
C20_LookupsNeverMiss ==
    /\ pc # "key_error"
    /\ pc = "session" =>
          /\ ListedSets(labels_retrieved_sets) \subseteq ListedSets(labels_sets)
          /\ Len(retrieved_insights) = Len(labels_retrieved_sets)
          /\ \A i \in 1..Len(labels_retrieved_sets) :
                /\ Tuple(labels_retrieved_sets[i]) \in DOMAIN environment_record
                /\ retrieved_insights[i] # KeyError
                /\ retrieved_insights[i]
                      = environment_record[Tuple(labels_retrieved_sets[i])]

C20_Witness ==
    /\ pc = "session"
    /\ Len(labels_retrieved_sets) = 2
    /\ <<TagA, TagA, TagB>> \in ListedSets(labels_retrieved_sets)
    /\ Len(retrieved_insights) = 2

\* the subtasks of the groups before group i of a plan
GroupsBefore(pipelines, i) ==
    UNION {ListedSets(pipelines[j]) : j \in 1..(i - 1)}
\* the graph {A: [], B: [A], C: [A, B]}
ChainGraph ==
    [s \in Keys |-> IF s = "A" THEN {} ELSE IF s = "B" THEN {"A"} ELSE {"A", "B"}]

\* C13: once there is a plan, every subtask is in exactly one group, the
\* dependencies of every subtask of a group lie in the groups before it (so
\* no two subtasks of a group depend on each other), and the plan of the
\* graph {A: [], B: [A], C: [A, B]} is [{A}, {B}, {C}].
C13_PlanIsLayered ==
    pc \notin {"plan", "aborted"} =>
        LET pipelines == parallel_subtask_pipelines
            flat == Flatten(pipelines)
        IN  /\ ListedSets(flat) = DOMAIN oriented_graph
            /\ Len(flat) = Cardinality(DOMAIN oriented_graph)
            /\ \A i \in 1..Len(pipelines) :
                  \A s \in ListedSets(pipelines[i]) :
                      /\ oriented_graph[s] \subseteq GroupsBefore(pipelines, i)
                      /\ \A t \in ListedSets(pipelines[i]) :
                            t \notin oriented_graph[s]
            /\ oriented_graph = ChainGraph
                  => pipelines = << <<"A">>, <<"B">>, <<"C">> >>

C13_Witness ==
    /\ pc = "seed"
    /\ oriented_graph = ChainGraph
    /\ parallel_subtask_pipelines = << <<"A">>, <<"B">>, <<"C">> >>

\* C14: a display call with a role other than 'user' or 'assistant' ends in
\* the validation error and leaves what is shown and the log as they were;
\* a display call with one of the two roles raises nothing, shows exactly
\* one more message and appends that message (header, text, blank line) to
\* the log.
C14_InvalidRoleRejected ==
    [][uiVars' # uiVars =>
          IF ui_call'.role \in {"user", "assistant"}
          THEN /\ ~ui_call'.raised
               /\ Len(chat_messages') = Len(chat_messages) + 1
               /\ SubSeq(chat_messages', 1, Len(chat_messages)) = chat_messages
               /\ chat_messages'[Len(chat_messages')].role = ui_call'.role
               /\ Len(output_file') = Len(output_file) + 3
               /\ SubSeq(output_file', 1, Len(output_file)) = output_file
               /\ output_file'[Len(output_file) + 1].role = ui_call'.role
               /\ output_file'[Len(output_file) + 2].text
                     = chat_messages'[Len(chat_messages')].text
          ELSE /\ ui_call'.raised
               /\ chat_messages' = chat_messages
               /\ output_file' = output_file]_vars

C14_Witness ==
    /\ pc = "ui"
    /\ ui_call.role = "system"
    /\ ui_call.raised
    /\ Len(chat_messages) = 2
    /\ Len(output_file) = 6
    /\ chat_messages[1].text.next_request = FALSE

\* the latest step call raised
LastCallRaised == calls > 0 /\ assistant_response.msg.turn # calls

\* C15: a step call that raises leaves the assistant-side record, the
\* human-readable transcript, the input message and the environment record
\* as they were, and the step call after it is given the same input message
\* as the call that raised.
C15_FailedCallChangesNothing ==
    [][/\ fails' = fails + 1 =>
             /\ calls' = calls + 1
             /\ assistant_msg_record' = assistant_msg_record
             /\ output_msg' = output_msg
             /\ input_msg' = input_msg
             /\ environment_record' = environment_record
       /\ (calls' = calls + 1 /\ LastCallRaised) => step_input' = step_input]_vars

C15_Witness ==
    /\ InDialogue
    /\ calls = 3
    /\ fails = 1
    /\ ~LastCallRaised
    /\ step_input = Msg("assistant", 1, FALSE)
    /\ environment_record # EmptyRecord

\* C16: every step call is given the initial chat message as long as no
\* turn has been recorded (no successful, non-terminated turn), and after
\* that the assistant's message of the latest recorded turn; it is never
\* given a user's message.
C16_AssistantDrivesNextTurn ==
    [][calls' = calls + 1 =>
          /\ step_input' = IF assistant_msg_record = <<>> THEN InitMsg
                           ELSE assistant_msg_record[Len(assistant_msg_record)].content
          /\ step_input'.who \in {"init", "assistant"}
          /\ assistant_msg_record # <<>> =>
                /\ step_input' = output_msg[Len(output_msg)].assistant
                /\ step_input'.turn
                      = assistant_msg_record[Len(assistant_msg_record)].turn]_vars

C16_Witness ==
    /\ InDialogue
    /\ calls = 4
    /\ fails = 1
    /\ step_input = Msg("assistant", 3, FALSE)
    /\ Len(assistant_msg_record) = 2
    /\ assistant_response.terminated

\* C17: the exit checks of a successful turn are applied in the order
\* assistant termination, user termination, completion sentinel: a terminated
\* assistant response ends the dialogue in TERMINATED_ASSISTANT whatever the
\* user response is, a terminated user response alone ends it in
\* TERMINATED_USER, and a dialogue is COMPLETED only when neither response of
\* its last turn is terminated and one of them carries the sentinel.
C17_ExitChecksInOrder ==
    InDialogue =>
        /\ assistant_response.terminated => state = "TERMINATED_ASSISTANT"
        /\ (~assistant_response.terminated /\ user_response.terminated)
              => state = "TERMINATED_USER"
        /\ state = "COMPLETED" =>
              /\ ~assistant_response.terminated
              /\ ~user_response.terminated
              /\ TaskDone(assistant_response, user_response)

C17_Witness ==
    /\ InDialogue
    /\ assistant_response.terminated
    /\ user_response.terminated
    /\ user_response.msg.sentinel
    /\ state = "TERMINATED_ASSISTANT"
    /\ Len(output_msg) = 1

\* main() is about to call the retrieval of the first subtask
BeforeFirstRetrieval == pc = "loop" /\ pos = 0
\* the last insight of a sequence that has the tags of its i-th
LastWithTagsOf(seq, i) ==
    LET same == {m \in 1..Len(seq) :
                    /\ ~seq[m].entity_recognition.none
                    /\ seq[m].entity_recognition.tags = seq[i].entity_recognition.tags}
    IN  seq[CHOOSE m \in same : \A other \in same : other <= m]
\* the tag tuples of the insights of a sequence that have tags
TuplesOf(seq) ==
    {Tuple(seq[i].entity_recognition.tags) :
        i \in {m \in 1..Len(seq) : ~seq[m].entity_recognition.none}}

\* C18 as stated: before the first subtask's retrieval every insight
\* extracted from the context text with non-null tags is an entry of the
\* store, and without context text the store is empty.
C18_EverySeedInsightStored ==
    BeforeFirstRetrieval =>
        /\ context_text = "None" => environment_record = EmptyRecord
        /\ \A i \in 1..Len(context_insights) :
              ~context_insights[i].entity_recognition.none =>
                 \E key \in DOMAIN environment_record :
                    environment_record[key] = context_insights[i]

\* C18 (amended): before the first subtask's retrieval the keys of the store
\* are exactly the tag tuples of the insights extracted from the context
\* text with non-null tags, and each key holds the last insight extracted
\* with that tuple (an earlier one with the same tuple is overwritten);
\* without context text the store is empty.
C18_StoreSeededBeforeFirstSubtask ==
    BeforeFirstRetrieval =>
        /\ context_text = "None" => environment_record = EmptyRecord
        /\ DOMAIN environment_record = TuplesOf(context_insights)
        /\ \A i \in 1..Len(context_insights) :
              ~context_insights[i].entity_recognition.none =>
                 environment_record[Tuple(context_insights[i].entity_recognition.tags)]
                    = LastWithTagsOf(context_insights, i)

C18_Witness ==
    /\ BeforeFirstRetrieval
    /\ context_text # "None"
    /\ Len(context_insights) = 2
    /\ ~context_insights[1].entity_recognition.none
    /\ context_insights[1].entity_recognition = context_insights[2].entity_recognition
    /\ context_insights[1].content # context_insights[2].content
    /\ environment_record[Tuple(context_insights[2].entity_recognition.tags)]
          = context_insights[2]

\* C19: a dialogue makes at most chat_turn_limit (50) step calls whatever
\* the calls do: the loop is still running only below the limit, a running
\* loop can always make its next call and a loop that was left can always go
\* on to the insight extraction; when every call has raised, the loop is
\* left only after exactly 50 calls, in TURN_LIMIT_REACHED and with both
\* transcripts empty.
C19_AtMostFiftyStepCalls ==
    InDialogue =>
        /\ calls <= chat_turn_limit
        /\ calls = n
        /\ state = "RUNNING" => calls < chat_turn_limit /\ ENABLED StepReturns
        /\ state # "RUNNING" => state \in Terminal /\ ENABLED ExtractInsights
        /\ (state \in Terminal /\ fails = calls) =>
              /\ calls = chat_turn_limit
              /\ state = "TURN_LIMIT_REACHED"
              /\ assistant_msg_record = <<>>
              /\ output_msg = <<>>

C19_Witness ==
    /\ InDialogue
    /\ fails = chat_turn_limit
    /\ calls = chat_turn_limit
    /\ state = "TURN_LIMIT_REACHED"
    /\ assistant_msg_record = <<>>
    /\ ENABLED ExtractInsights

====
